---- MODULE Spec2Model ----
(***************************************************************************)
(* The session lifecycle of AuthProvider (src/app/admin/layout.tsx, lines  *)
(* 68-263): mount reconciliation (checkAuth), refreshUser, login, logout,  *)
(* the delayed post-login redirect and the session countdown driven by     *)
(* useSessionTimeout.  Every await of the source is a point where another  *)
(* handler may run, so each async function is cut into one action per      *)
(* synchronous stretch.  A React state update and the render it causes     *)
(* (the [user] effect of lines 110-117 and the effect of the               *)
(* useSessionTimeout hook) are taken in the same step as the stretch that  *)
(* made the update.                                                        *)
(*                                                                         *)
(* "@/lib/auth" and "@/hooks/useSessionTimeout" are imported by the source *)
(* but are not part of it; they are modelled from the specification        *)
(* (sections 4.1 and 6).                                                   *)
(***************************************************************************)
EXTENDS Integers, FiniteSets, Sequences, TLC

\* ---------------------------------------------------------------- bounds
\* Calls of login / logout / refreshUser made by consumers of the context.
MaxOps == 2
\* logout() calls of one origin whose notify fetch is pending at once.
MaxInFlight == 1

\* ------------------------------------------------------------- constants
NoUser == "null"
Users == {"admin_user", "plain_user"}
NoToken == "null"
BearerToken == "bearer"
NoInfo == "null"
TokenInfo == "info"
NoNav == "none"
LoginPage == "/login"
AdminLanding == "/admin"
GeneralLanding == "/dashboard"

\* user_role of a user record (line 44); "admin" is the administrative role.
UserRole(u) == IF u = "admin_user" THEN "admin" ELSE "user"

\* Line 169: warningInSeconds: 30.
WarningInSeconds == 30

\* Outcomes of the three network calls, as the code distinguishes them.
FetchOutcomes == {"ok", "no_user", "unauthorized", "not_ok", "network_error"}
NotifyOutcomes == {"ok", "error_response", "thrown"}
LoginErrors == {"bad_credentials", "network_error"}

RefreshCallers == {"mount", "consumer"}
LogoutCallers == {"explicit", "timeout"} \cup RefreshCallers

VARIABLES
    \* Persisted Token Record (lib/auth over localStorage)
    token, rememberMe, storedUser, userId,
    \* process.env.NEXT_PUBLIC_API_URL is set
    apiUrl,
    \* React state of AuthProvider (lines 69-72)
    user, loading, mounted, tokenInfo,
    \* state of the useSessionTimeout hook: countdown and warning
    hook,
    \* positions of the async functions
    checkPc, refreshPc, logoutN, loginPc,
    \* pending setTimeout redirects (line 240) and the last router.push
    redirects, lastNav,
    \* bookkeeping of the run (not program state)
    ops, last, tokenAtMount, loginEver, fetchEver, armedEver

storeV == <<token, rememberMe, storedUser>>
envV == <<userId, apiUrl, tokenAtMount>>
reactV == <<user, tokenInfo, hook, armedEver>>
vars == <<token, rememberMe, storedUser, userId, apiUrl, user, loading, mounted,
          tokenInfo, hook, checkPc, refreshPc, logoutN, loginPc, redirects,
          lastNav, ops, last, tokenAtMount, loginEver, fetchEver, armedEver>>

\* The step just taken: the operation, its origin, the outcome or argument it
\* was given, what it returned or threw, how many logout sequences it began
\* and whether it issued the fetch-user call.
Ev(op, who, outcome, ret, began, fetched) ==
    [op |-> op, who |-> who, outcome |-> outcome, ret |-> ret, began |-> began,
     fetched |-> fetched]

\* The rememberMe argument of a login, as recorded in a step.
RmArg(rm) == IF rm THEN "remember_me" ELSE "no_remember_me"

\* ------------------------------------------------------------ lib/auth
\* isAuthenticated(): a token is stored.
IsAuthenticated(tok) == tok # NoToken

\* getTokenExpirationInfo(): information about the stored token, if any.
GetTokenExpirationInfo(tok) == IF tok # NoToken THEN TokenInfo ELSE NoInfo

\* ------------------------------------------------- session timeout (hook)
GetSessionTimeoutSwapped(rm) == IF rm THEN 2 * 60 ELSE 14 * 24 * 60

\* Lines 155-165.
GetSessionTimeout(rm) == IF rm THEN 14 * 24 * 60 ELSE 2 * 60

IsAuthenticatedPropAlways(u) == TRUE

\* Line 171: isAuthenticated: !!user.
IsAuthenticatedProp(u) == u # NoUser

HookIdle == [state |-> "Idle", remaining |-> 0, duration |-> 0, showWarning |-> FALSE]

\* arm(durationMinutes, warningSeconds, ...): a fresh countdown.
Arm(mins) ==
    [state |-> "Running", remaining |-> mins * 60, duration |-> mins, showWarning |-> FALSE]

\* Whether rendering with these props starts a fresh countdown: the session
\* became authenticated, or the timeout prop changed while it is.
Arming(h, isAuth, mins) == isAuth /\ (h.state = "Idle" \/ h.duration # mins)

\* The hook after a render with props (timeoutInMinutes, isAuthenticated):
\* cancel when not authenticated, arm (replacing any countdown) when Arming.
UseSessionTimeout(h, isAuth, mins) ==
    IF ~isAuth THEN HookIdle
    ELSE IF Arming(h, isAuth, mins) THEN Arm(mins)
    ELSE h

\* setUserState(u) and the render that follows, from hook state h:
\* lines 110-117 (token info follows user) and lines 167-172.
Commit(h, u) ==
    /\ user' = u
    /\ tokenInfo' = IF u # NoUser THEN GetTokenExpirationInfo(token') ELSE NoInfo
    /\ hook' = UseSessionTimeout(h, IsAuthenticatedProp(u), GetSessionTimeout(rememberMe'))
    /\ armedEver' = (armedEver \/ Arming(h, IsAuthenticatedProp(u), GetSessionTimeout(rememberMe')))

\* ------------------------------------------------------------------ Init
Init ==
    /\ token \in {NoToken, BearerToken}
    /\ rememberMe \in BOOLEAN
    /\ storedUser \in Users \cup {NoUser}
    /\ userId \in BOOLEAN
    /\ apiUrl \in BOOLEAN
    /\ user = NoUser
    /\ loading = TRUE
    /\ mounted = FALSE
    /\ tokenInfo = NoInfo
    /\ hook = HookIdle
    /\ checkPc = "idle"
    /\ refreshPc = [c \in RefreshCallers |-> "idle"]
    /\ logoutN = [c \in LogoutCallers |-> 0]
    /\ loginPc = [state |-> "idle", rememberMe |-> FALSE]
    /\ redirects = [t \in {AdminLanding, GeneralLanding} |-> 0]
    /\ lastNav = NoNav
    /\ ops = 0
    /\ last = Ev("init", "none", "none", "none", 0, FALSE)
    /\ tokenAtMount = token
    /\ loginEver = FALSE
    /\ fetchEver = FALSE
    /\ armedEver = FALSE

\* ---------------------------------------------------------------- logout
LocalCleanupKeepsStoredUser(h) ==
    /\ token' = NoToken
    /\ UNCHANGED <<storedUser, rememberMe>>
    /\ Commit(h, NoUser)
    /\ lastNav' = LoginPage

\* Lines 138-143: removeToken, removeUser, setUserState(null),
\* setTokenInfo(null), router.push("/login").
LocalCleanup(h) ==
    /\ token' = NoToken
    /\ storedUser' = NoUser
    /\ rememberMe' = rememberMe
    /\ Commit(h, NoUser)
    /\ lastNav' = LoginPage

\* Lines 119-136: logout() up to its first await.  With a token the notify
\* fetch is awaited; with none the cleanup runs at once.
LogoutBegin(c, h) ==
    IF token # NoToken
    THEN /\ logoutN' = [logoutN EXCEPT ![c] = @ + 1]
         /\ hook' = h
         /\ UNCHANGED <<storeV, user, tokenInfo, armedEver, lastNav>>
    ELSE /\ LocalCleanup(h)
         /\ UNCHANGED logoutN

LogoutAfterNotifyUnguarded(o) == IF o = "thrown" THEN "fail" ELSE "cleanup"

\* Lines 124-136: the fetch result is ignored and a thrown fetch is caught
\* and logged, so every outcome continues with the local cleanup.
LogoutAfterNotify(o) == "cleanup"

RefreshDoneNeverSettles(c) ==
    /\ refreshPc' = [refreshPc EXCEPT ![c] = "idle"]
    /\ UNCHANGED <<checkPc, loading>>

RefreshDoneKeepsLoading(c) ==
    /\ refreshPc' = [refreshPc EXCEPT ![c] = "idle"]
    /\ IF c = "mount"
       THEN checkPc' = "done" /\ UNCHANGED loading
       ELSE UNCHANGED <<checkPc, loading>>

\* End of refreshUser for caller c; the mount's call returns into checkAuth,
\* whose finally block (line 100) clears loading.
RefreshDone(c) ==
    /\ refreshPc' = [refreshPc EXCEPT ![c] = "idle"]
    /\ IF c = "mount"
       THEN checkPc' = "done" /\ loading' = FALSE
       ELSE UNCHANGED <<checkPc, loading>>

\* The effects of the mounting render have run (lines 104-106).  Timers and
\* network responses are later tasks; calls by consumers may come before,
\* from the effects of the children rendered with the provider.
MountEffectsRan == checkPc # "idle"

\* ---------------------------------------------------------------- mount
\* Lines 76-78.
Mount ==
    /\ ~mounted
    /\ mounted' = TRUE
    /\ last' = Ev("mount", "none", "none", "none", 0, FALSE)
    /\ UNCHANGED <<storeV, envV, reactV, loading, checkPc, refreshPc, logoutN,
                   loginPc, redirects, lastNav, ops, loginEver, fetchEver>>

\* Lines 82-102: checkAuth, run once the provider is mounted.  Without a
\* token it settles at once; with one it awaits refreshUser().
\* Line 89: if (!isAuthenticated()) ... return.
CheckAuthPath(tok) == IF ~IsAuthenticated(tok) THEN "anonymous" ELSE "refresh"

RefreshPathNoCache(tok, su, uid, api) ==
    IF tok = NoToken THEN "anonymous"
    ELSE IF ~uid \/ ~api THEN "unresolved"
    ELSE "fetch"

RefreshPathNoTokenCheck(tok, su, uid, api) ==
    IF su # NoUser THEN "cached"
    ELSE IF ~uid \/ ~api THEN "unresolved"
    ELSE "fetch"

\* Lines 178-199: which way refreshUser goes before any await.
RefreshPath(tok, su, uid, api) ==
    IF tok = NoToken THEN "anonymous"
    ELSE IF su # NoUser THEN "cached"
    ELSE IF ~uid \/ ~api THEN "unresolved"
    ELSE "fetch"

\* Lines 174-208: refreshUser() for caller c up to its first await.
RefreshUserBegin(c, p) ==
    /\ UNCHANGED <<storeV, lastNav, logoutN>>
    /\ IF p = "fetch"
       THEN /\ refreshPc' = [refreshPc EXCEPT ![c] = "fetching"]
            /\ fetchEver' = TRUE
            /\ UNCHANGED reactV
            /\ IF c = "mount"
               THEN checkPc' = "refreshing" /\ loading' = TRUE
               ELSE UNCHANGED <<checkPc, loading>>
       ELSE /\ Commit(hook, IF p = "cached" THEN storedUser ELSE NoUser)
            /\ RefreshDone(c)
            /\ UNCHANGED fetchEver

CheckAuth ==
    /\ mounted
    /\ checkPc = "idle"
    /\ IF CheckAuthPath(token) = "anonymous"
       THEN /\ UNCHANGED <<storeV, lastNav, logoutN, refreshPc, fetchEver>>
            /\ Commit(hook, NoUser)
            /\ loading' = FALSE
            /\ checkPc' = "done"
            /\ last' = Ev("checkAuth", "mount", "none", "no_token", 0, FALSE)
       ELSE LET p == RefreshPath(token, storedUser, userId, apiUrl) IN
            /\ RefreshUserBegin("mount", p)
            /\ last' = Ev("checkAuth", "mount", "none", p, 0, p = "fetch")
    /\ UNCHANGED <<envV, mounted, loginPc, redirects, ops, loginEver>>

\* refreshUser() called by a consumer of the context.
RefreshUserCall ==
    /\ mounted
    /\ ops < MaxOps
    /\ refreshPc["consumer"] = "idle"
    /\ LET p == RefreshPath(token, storedUser, userId, apiUrl) IN
        /\ RefreshUserBegin("consumer", p)
        /\ last' = Ev("refreshUser", "consumer", "none", p, 0, p = "fetch")
    /\ ops' = ops + 1
    /\ UNCHANGED <<envV, mounted, loginPc, redirects, loginEver>>

ResponseDispositionNo401(o) ==
    IF o = "ok" \/ o = "no_user" THEN "adopt" ELSE "catch"

\* Lines 210-225: what refreshUser does with the fetch result.  A thrown
\* fetch, a non-OK status and a body that does not parse all reach the catch.
ResponseDisposition(o) ==
    IF o = "unauthorized" THEN "logout"
    ELSE IF o = "ok" \/ o = "no_user" THEN "adopt"
    ELSE "catch"

RefreshCatchKeepsUser(cur) == cur

\* Lines 222-225: the catch of refreshUser sets the user to null, whatever
\* the current user cur.
RefreshCatch(cur) == NoUser

StoredAfterAdoptPersisted(su, u) == u

\* Lines 219-221: the user of the response goes into the React state only
\* (setUserState); the cached user su of the store is left as it is.
StoredAfterAdopt(su, u) == su

\* The fetch-user call of caller c ends with outcome o (user u when "ok").
FetchUserResponse(c, o, u) ==
    /\ MountEffectsRan
    /\ refreshPc[c] = "fetching"
    /\ (o = "ok") = (u # NoUser)
    /\ LET d == ResponseDisposition(o) IN
       IF d = "logout"
       THEN /\ LogoutBegin(c, hook)
            /\ IF token # NoToken
               THEN /\ refreshPc' = [refreshPc EXCEPT ![c] = "logout"]
                    /\ UNCHANGED <<checkPc, loading>>
               ELSE RefreshDone(c)
            /\ last' = Ev("fetchResponse", c, o, IF token = NoToken THEN "done" ELSE "pending", 1, FALSE)
       ELSE /\ UNCHANGED <<token, rememberMe, lastNav, logoutN>>
            /\ storedUser' = IF d = "adopt" THEN StoredAfterAdopt(storedUser, u)
                                            ELSE storedUser
            /\ Commit(hook, IF d = "adopt" THEN u ELSE RefreshCatch(user))
            /\ RefreshDone(c)
            /\ last' = Ev("fetchResponse", c, o, "done", 0, FALSE)
    /\ UNCHANGED <<envV, mounted, loginPc, redirects, ops, loginEver, fetchEver>>

\* ---------------------------------------------------------------- logout
\* logout() called by a consumer of the context.
LogoutCall ==
    /\ mounted
    /\ ops < MaxOps
    /\ logoutN["explicit"] < MaxInFlight
    /\ LogoutBegin("explicit", hook)
    /\ last' = Ev("logout", "explicit", "none", IF token = NoToken THEN "true" ELSE "pending", 1, FALSE)
    /\ ops' = ops + 1
    /\ UNCHANGED <<envV, loading, mounted, checkPc, refreshPc, loginPc, redirects,
                   loginEver, fetchEver>>

\* Lines 124-147: the notify fetch of a logout() of origin c ends with
\* outcome o; the logout resumes, and with it a refreshUser awaiting it.
LogoutNotifyDone(c, o) ==
    /\ MountEffectsRan
    /\ logoutN[c] > 0
    /\ logoutN' = [logoutN EXCEPT ![c] = @ - 1]
    /\ IF LogoutAfterNotify(o) = "cleanup"
       THEN /\ LocalCleanup(hook)
            /\ last' = Ev("logoutDone", c, o, "true", 0, FALSE)
       ELSE /\ UNCHANGED <<storeV, reactV, lastNav>>
            /\ last' = Ev("logoutDone", c, o, "false", 0, FALSE)
    /\ IF c \in RefreshCallers
       THEN RefreshDone(c)
       ELSE UNCHANGED <<refreshPc, checkPc, loading>>
    /\ UNCHANGED <<envV, mounted, loginPc, redirects, ops, loginEver, fetchEver>>

\* ----------------------------------------------------------------- login
LoginCatchWrapped(e) == "login_failed"

\* Lines 249-252: the error is logged and thrown again as it is.
LoginCatch(e) == e

RedirectTargetAlwaysGeneral(u) == GeneralLanding

\* Lines 241-247.
RedirectTarget(u) == IF UserRole(u) = "admin" THEN AdminLanding ELSE GeneralLanding

\* Lines 228-231: login(email, password, rm) up to the await of loginUser.
LoginCall(rm) ==
    /\ mounted
    /\ ops < MaxOps
    /\ loginPc.state = "idle"
    /\ loginPc' = [state |-> "verifying", rememberMe |-> rm]
    /\ loginEver' = TRUE
    /\ ops' = ops + 1
    /\ last' = Ev("loginCall", "consumer", RmArg(rm), "pending", 0, FALSE)
    /\ UNCHANGED <<storeV, envV, reactV, loading, mounted, checkPc, refreshPc, logoutN,
                   redirects, lastNav, fetchEver>>

\* loginUser resolves with user u, having persisted token, remember-me flag
\* and user; lines 232-248 then set the user and schedule the redirect.
LoginUserSuccess(u) ==
    /\ MountEffectsRan
    /\ loginPc.state = "verifying"
    /\ token' = BearerToken
    /\ rememberMe' = loginPc.rememberMe
    /\ storedUser' = u
    /\ Commit(hook, u)
    /\ redirects' = [redirects EXCEPT ![RedirectTarget(u)] = @ + 1]
    /\ loginPc' = [state |-> "idle", rememberMe |-> FALSE]
    /\ last' = Ev("loginResolved", "consumer", RmArg(loginPc.rememberMe), "resolved", 0, FALSE)
    /\ UNCHANGED <<envV, loading, mounted, checkPc, refreshPc, logoutN, lastNav, ops,
                   loginEver, fetchEver>>

\* loginUser rejects with error e; lines 249-252.
LoginUserReject(e) ==
    /\ MountEffectsRan
    /\ loginPc.state = "verifying"
    /\ loginPc' = [state |-> "idle", rememberMe |-> FALSE]
    /\ last' = Ev("loginRejected", "consumer", e, LoginCatch(e), 0, FALSE)
    /\ UNCHANGED <<storeV, envV, reactV, loading, mounted, checkPc, refreshPc, logoutN,
                   redirects, lastNav, ops, loginEver, fetchEver>>

\* Lines 240-248: the timer set by a resolved login fires.
RedirectFire(t) ==
    /\ MountEffectsRan
    /\ redirects[t] > 0
    /\ redirects' = [redirects EXCEPT ![t] = @ - 1]
    /\ lastNav' = t
    /\ last' = Ev("redirect", "timer", t, "none", 0, FALSE)
    /\ UNCHANGED <<storeV, envV, reactV, loading, mounted, checkPc, refreshPc, logoutN,
                   loginPc, ops, loginEver, fetchEver>>

\* ------------------------------------------------------------- countdown
\* Instants at which the countdown is observed between its events
\* (remaining seconds): just before the warning, and within it.
TickPoints == {WarningInSeconds + 1, WarningInSeconds - 1, 1}

\* A tick that crosses neither the warning threshold nor zero.
TickAllowed(h, r) ==
    /\ h.state \in {"Running", "Warning"}
    /\ r < h.remaining
    /\ (h.state = "Running") = (r > WarningInSeconds)

\* Time passes; remaining is recomputed.
TimerTick(r) ==
    /\ MountEffectsRan
    /\ TickAllowed(hook, r)
    /\ hook' = [hook EXCEPT !.remaining = r]
    /\ last' = Ev("tick", "timer", "none", "none", 0, FALSE)
    /\ UNCHANGED <<storeV, envV, user, tokenInfo, armedEver, loading, mounted, checkPc,
                   refreshPc, logoutN, loginPc, redirects, lastNav, ops, loginEver, fetchEver>>

\* remaining reaches the warning window: the warn event.
TimerWarn ==
    /\ MountEffectsRan
    /\ hook.state = "Running"
    /\ hook' = [hook EXCEPT !.state = "Warning", !.remaining = WarningInSeconds,
                            !.showWarning = TRUE]
    /\ last' = Ev("warn", "timer", "none", "none", 0, FALSE)
    /\ UNCHANGED <<storeV, envV, user, tokenInfo, armedEver, loading, mounted, checkPc,
                   refreshPc, logoutN, loginPc, redirects, lastNav, ops, loginEver, fetchEver>>

\* onExpire is due once, when a countdown in its warning window reaches 0.
ExpireDue(h) == h.state = "Warning"

FiredStillLive(h) == [h EXCEPT !.remaining = 0, !.showWarning = FALSE]

\* The countdown once onExpire has fired: inert, warning gone.
Fired(h) == [h EXCEPT !.state = "Expired", !.remaining = 0, !.showWarning = FALSE]

OnTimeoutIgnored == "none"

\* Lines 150-152 and 170: onTimeout is handleSessionTimeout, which calls logout().
OnTimeout == "logout"

\* remaining reaches 0: the expire event; the countdown is inert afterwards.
TimerExpire ==
    /\ MountEffectsRan
    /\ ExpireDue(hook)
    /\ logoutN["timeout"] < MaxInFlight
    /\ LET h == Fired(hook) IN
       IF OnTimeout = "logout"
       THEN /\ LogoutBegin("timeout", h)
            /\ last' = Ev("expire", "timeout", "none", IF token = NoToken THEN "true" ELSE "pending", 1, FALSE)
       ELSE /\ hook' = h
            /\ last' = Ev("expire", "timeout", "none", "none", 0, FALSE)
            /\ UNCHANGED <<storeV, user, tokenInfo, armedEver, lastNav, logoutN>>
    /\ UNCHANGED <<envV, loading, mounted, checkPc, refreshPc, loginPc, redirects, ops,
                   loginEver, fetchEver>>

ResetKeepsWarning(h) == [h EXCEPT !.state = "Running", !.remaining = h.duration * 60]

\* reset(): the countdown starts again with the same duration, warning cleared.
Reset(h) == [h EXCEPT !.state = "Running", !.remaining = h.duration * 60,
                      !.showWarning = FALSE]

\* Line 260: the warning is rendered while showWarning, and its onContinue
\* is dismissWarning.
DismissWarning ==
    /\ MountEffectsRan
    /\ hook.showWarning
    /\ hook' = Reset(hook)
    /\ last' = Ev("dismiss", "consumer", "none", "none", 0, FALSE)
    /\ UNCHANGED <<storeV, envV, user, tokenInfo, armedEver, loading, mounted, checkPc,
                   refreshPc, logoutN, loginPc, redirects, lastNav, ops, loginEver, fetchEver>>

\* Qualifying user activity while the countdown runs resets it.
Activity ==
    /\ MountEffectsRan
    /\ hook.state = "Running"
    /\ hook.remaining < hook.duration * 60
    /\ hook' = Reset(hook)
    /\ last' = Ev("activity", "consumer", "none", "none", 0, FALSE)
    /\ UNCHANGED <<storeV, envV, user, tokenInfo, armedEver, loading, mounted, checkPc,
                   refreshPc, logoutN, loginPc, redirects, lastNav, ops, loginEver, fetchEver>>

\* ------------------------------------------------------------------ Next
Next ==
    \/ Mount
    \/ CheckAuth
    \/ RefreshUserCall
    \/ \E c \in RefreshCallers, o \in FetchOutcomes, u \in Users \cup {NoUser} :
          FetchUserResponse(c, o, u)
    \/ LogoutCall
    \/ \E c \in LogoutCallers, o \in NotifyOutcomes : LogoutNotifyDone(c, o)
    \/ \E rm \in BOOLEAN : LoginCall(rm)
    \/ \E u \in Users : LoginUserSuccess(u)
    \/ \E e \in LoginErrors : LoginUserReject(e)
    \/ \E t \in {AdminLanding, GeneralLanding} : RedirectFire(t)
    \/ \E r \in TickPoints : TimerTick(r)
    \/ TimerWarn
    \/ TimerExpire
    \/ DismissWarning
    \/ Activity

Spec == Init /\ [][Next]_vars

\* The effects of the mounting render are run by React, and every network
\* call started by the mount reconciliation returns or fails: the fetch of
\* line 201 and the notify fetch of the logout of line 211.
FairSpec ==
    /\ Spec
    /\ WF_vars(Mount)
    /\ WF_vars(CheckAuth)
    /\ WF_vars(\E o \in FetchOutcomes, u \in Users \cup {NoUser} :
                   FetchUserResponse("mount", o, u))
    /\ WF_vars(\E o \in NotifyOutcomes : LogoutNotifyDone("mount", o))

\* ------------------------------------------------------------ type check
TypeOK ==
    /\ token \in {NoToken, BearerToken}
    /\ rememberMe \in BOOLEAN
    /\ storedUser \in Users \cup {NoUser}
    /\ user \in Users \cup {NoUser}
    /\ loading \in BOOLEAN
    /\ tokenInfo \in {NoInfo, TokenInfo}
    /\ hook.state \in {"Idle", "Running", "Warning", "Expired"}
    /\ checkPc \in {"idle", "refreshing", "done"}
    /\ \A c \in RefreshCallers : refreshPc[c] \in {"idle", "fetching", "logout"}
    /\ \A c \in LogoutCallers : logoutN[c] \in 0..MaxInFlight
    /\ ops \in 0..MaxOps

\* ================================================================ claims

\* C1: if the Token Store holds no token at mount then, as long as login has
\* not been called, the user is null, the fetch-user call has never been
\* made, no countdown has ever been armed, and once the mount reconciliation
\* is over loading is false.
C1_NoTokenSettlesAnonymous ==
    (tokenAtMount = NoToken /\ ~loginEver) =>
        /\ user = NoUser
        /\ ~fetchEver
        /\ ~armedEver
        /\ hook.state = "Idle"
        /\ \A c \in RefreshCallers : refreshPc[c] # "fetching"
        /\ (checkPc = "done" => ~loading)

\* Mount has settled without a token and a consumer has then called
\* refreshUser while a cached user was still stored.
C1_Witness ==
    /\ tokenAtMount = NoToken
    /\ ~loginEver
    /\ checkPc = "done"
    /\ ~loading
    /\ last.op = "refreshUser"
    /\ storedUser # NoUser

\* C2: a checkAuth or refreshUser step taken while the Token Store holds a
\* token and a cached user ends with user equal to that cached user, the
\* call complete, and no fetch-user call issued.
C2_CachedUserAdoptedWithoutFetch ==
    [][ (last'.op \in {"checkAuth", "refreshUser"}
            /\ token # NoToken /\ storedUser # NoUser)
        => /\ user' = storedUser
           /\ fetchEver' = fetchEver
           /\ ~last'.fetched
           /\ refreshPc'[last'.who] = "idle"
           /\ hook'.state # "Idle" ]_vars

\* The store held a token and a cached user from the start; the mount adopted
\* it and so did a later refreshUser, and no fetch was ever made.
C2_Witness ==
    /\ last.op = "refreshUser"
    /\ last.ret = "cached"
    /\ checkPc = "done"
    /\ ~loginEver
    /\ ops = 1
    /\ user = storedUser
    /\ user # NoUser
    /\ ~fetchEver

\* C3: a 401 response to refreshUser's fetch starts one logout sequence and
\* no new fetch; when that refreshUser completes (at once when no token is
\* left to notify with, else when the logout's notify call ends) the user is
\* null and the Token Store holds neither token nor cached user.
C3_UnauthorizedForcesLogout ==
    [][ /\ (last'.op = "fetchResponse" /\ last'.outcome = "unauthorized")
            => /\ last'.began = 1
               /\ ~last'.fetched
               /\ refreshPc'[last'.who] = (IF token = NoToken THEN "idle" ELSE "logout")
               /\ (token # NoToken => logoutN'[last'.who] = logoutN[last'.who] + 1)
        /\ (\/ (last'.op = "logoutDone" /\ last'.who \in RefreshCallers)
            \/ (last'.op = "fetchResponse" /\ last'.outcome = "unauthorized"
                   /\ refreshPc'[last'.who] = "idle"))
            => /\ user' = NoUser
               /\ token' = NoToken
               /\ storedUser' = NoUser
               /\ refreshPc'[last'.who] = "idle" ]_vars

\* A consumer's refreshUser got a 401, its logout has completed.
C3_Witness ==
    /\ last.op = "logoutDone"
    /\ last.who = "consumer"
    /\ refreshPc["consumer"] = "idle"
    /\ user = NoUser
    /\ token = NoToken
    /\ storedUser = NoUser

\* C4: a logout whose notify call fails (thrown, or answered with an error)
\* ends with user null and token and cached user removed, whatever the state
\* it resumed in.
C4_CleanupDespiteNotifyFailure ==
    [][ (last'.op = "logoutDone" /\ last'.outcome \in {"thrown", "error_response"})
        => /\ user' = NoUser
           /\ token' = NoToken
           /\ storedUser' = NoUser
           /\ tokenInfo' = NoInfo
           /\ lastNav' = LoginPage ]_vars

\* An explicit logout of an authenticated session whose notify call threw.
C4_Witness ==
    /\ last.op = "logoutDone"
    /\ last.who = "explicit"
    /\ last.outcome = "thrown"
    /\ user = NoUser
    /\ token = NoToken
    /\ storedUser = NoUser

\* C5: every logout that has just ended has returned true, with the local
\* cleanup done, for each outcome of the notify call; it never returns false
\* on account of the notification and never throws.
C5_LogoutReturnsTrue ==
    /\ last.op = "logoutDone" =>
          /\ last.outcome \in NotifyOutcomes
          /\ last.ret = "true"
          /\ token = NoToken /\ storedUser = NoUser /\ user = NoUser
    /\ (last.op \in {"logout", "expire"} /\ last.ret # "pending") =>
          /\ last.ret = "true"
          /\ token = NoToken /\ storedUser = NoUser /\ user = NoUser

\* A logout whose notify call was answered with an error has returned true.
C5_Witness ==
    /\ last.op = "logoutDone"
    /\ last.outcome = "error_response"
    /\ last.ret = "true"

\* A step whose render arms the countdown afresh.
ArmStep == hook' = Arm(GetSessionTimeout(rememberMe')) /\ user' # NoUser
              /\ last'.op \in {"checkAuth", "refreshUser", "fetchResponse", "loginResolved"}

Inert(h) == h.state \in {"Idle", "Expired"}

\* C6: onExpire fires only from a live countdown, which it leaves inert; an
\* inert countdown (cancelled, never armed, or already fired) changes only by
\* being armed afresh or cancelled, so between two arms onExpire fires at
\* most once, and never after a cancel; it never fires without a user.
C6_ExpireAtMostOncePerArm ==
    [][ /\ last'.op = "expire"
            => /\ ~Inert(hook)
               /\ Inert(hook')
               /\ user # NoUser
        /\ (Inert(hook) /\ ~ArmStep) => (hook' = hook \/ hook' = HookIdle)
        /\ user' = NoUser => hook' = HookIdle ]_vars

\* The countdown fired, the logout it started is still notifying, and the
\* countdown is inert.
C6_Witness ==
    /\ hook.state = "Expired"
    /\ logoutN["timeout"] = 1
    /\ user # NoUser
    /\ last.op # "expire"

\* C7: a countdown that is armed has the duration of the stored remember-me
\* flag, 14*24*60 minutes when set and 120 when not, and a warning window of
\* 30 seconds; after a resolved login the countdown is armed with the duration
\* of that login's rememberMe argument.
C7_DurationFollowsRememberMe ==
    /\ hook.state # "Idle" =>
          /\ hook.duration = (IF rememberMe THEN 14 * 24 * 60 ELSE 120)
          /\ hook.showWarning = (hook.state = "Warning")
          /\ hook.state = "Running" => hook.remaining \in 31..(hook.duration * 60)
          /\ hook.state = "Warning" => hook.remaining \in 1..30
    /\ last.op = "loginResolved" =>
          /\ hook.state # "Idle"
          /\ hook.duration = (IF last.outcome = "remember_me" THEN 20160 ELSE 120)

\* A login with rememberMe has just resolved over a session that had the
\* short duration, and the countdown runs for 14 days.
C7_Witness ==
    /\ last.op = "loginResolved"
    /\ last.outcome = "remember_me"
    /\ tokenAtMount # NoToken
    /\ hook.state = "Running"
    /\ hook.remaining = 20160 * 60

\* C8: the warn event fires only for an authenticated session whose countdown
\* runs without a warning, and shows the warning with a remaining time within
\* the window; the warning appears in no other way; dismissing it restarts
\* the countdown at its full duration with the warning hidden and the user
\* unchanged.
C8_WarnOnceAndDismiss ==
    [][ /\ last'.op = "warn"
            => /\ user # NoUser /\ user' = user
               /\ hook.state = "Running" /\ ~hook.showWarning
               /\ hook.remaining > WarningInSeconds
               /\ hook'.state = "Warning" /\ hook'.showWarning
               /\ hook'.remaining \in 1..WarningInSeconds
        /\ (~hook.showWarning /\ hook'.showWarning) => last'.op = "warn"
        /\ (hook.state = "Warning" /\ hook'.state = "Warning") => hook'.showWarning
        /\ last'.op = "dismiss"
            => /\ hook.showWarning /\ user # NoUser /\ user' = user
               /\ hook'.state = "Running" /\ ~hook'.showWarning
               /\ hook'.remaining = hook.duration * 60
               /\ hook'.duration = hook.duration ]_vars

\* A warning of an authenticated session has just been dismissed.
C8_Witness ==
    /\ last.op = "dismiss"
    /\ user # NoUser
    /\ ~hook.showWarning
    /\ hook.state = "Running"
    /\ hook.remaining = hook.duration * 60

\* C9: the expire event begins exactly one logout sequence and leaves the
\* countdown inert; when that logout ends (at once, or when its notify call
\* ends) the user is null, token and cached user are removed and the
\* countdown is idle, whether or not another logout is in progress.
C9_ExpiryLogsOutOnce ==
    [][ /\ last'.op = "expire"
            => /\ last'.began = 1
               /\ Inert(hook')
               /\ (token # NoToken
                      => /\ logoutN' = [logoutN EXCEPT !["timeout"] = @ + 1]
                         /\ last'.ret = "pending")
               /\ (token = NoToken => last'.ret = "true" /\ UNCHANGED logoutN)
        /\ (\/ (last'.op = "logoutDone" /\ last'.who = "timeout")
            \/ (last'.op = "expire" /\ last'.ret # "pending"))
            => /\ user' = NoUser
               /\ token' = NoToken
               /\ storedUser' = NoUser
               /\ hook' = HookIdle
               /\ lastNav' = LoginPage ]_vars

\* The countdown has just expired while an explicit logout was awaiting its
\* notify call.
C9_Witness ==
    /\ last.op = "expire"
    /\ logoutN["explicit"] = 1
    /\ logoutN["timeout"] = 1

\* C10: a rejected login throws the Identity Client's error as it is and
\* changes neither user, token info, Token Store, countdown, pending
\* redirects nor the last navigation.
C10_RejectedLoginChangesNothing ==
    [][ /\ last'.op = "loginRejected"
            => /\ last'.ret = last'.outcome
               /\ last'.outcome \in LoginErrors
        /\ last'.op \in {"loginCall", "loginRejected"}
            => UNCHANGED <<user, tokenInfo, token, rememberMe, storedUser, hook,
                           redirects, lastNav, loading>> ]_vars

\* A login of an anonymous, settled session was rejected for bad credentials.
C10_Witness ==
    /\ last.op = "loginRejected"
    /\ last.outcome = "bad_credentials"
    /\ last.ret = "bad_credentials"
    /\ checkPc = "done"
    /\ user = NoUser
    /\ token = NoToken

\* C11: a login that resolves while no user is set leaves the Token Store
\* holding the token, that login's remember-me flag and the returned user,
\* sets that user, arms a fresh countdown and schedules exactly one redirect,
\* to the administrative landing for the administrative role and to the
\* general landing otherwise, navigating nowhere yet; a scheduled redirect
\* that fires navigates once, to its target.
C11_LoginFromAnonymous ==
    [][ /\ (last'.op = "loginResolved" /\ user = NoUser)
            => /\ user' \in Users
               /\ token' = BearerToken
               /\ storedUser' = user'
               /\ rememberMe' = (last'.outcome = "remember_me")
               /\ tokenInfo' = TokenInfo
               /\ hook' = Arm(IF rememberMe' THEN 20160 ELSE 120)
               /\ lastNav' = lastNav
               /\ LET t == IF UserRole(user') = "admin" THEN AdminLanding
                           ELSE GeneralLanding
                  IN redirects' = [redirects EXCEPT ![t] = @ + 1]
        /\ last'.op = "redirect"
            => /\ redirects[last'.outcome] > 0
               /\ redirects' = [redirects EXCEPT ![last'.outcome] = @ - 1]
               /\ lastNav' = last'.outcome ]_vars

\* The only call made was a login of a session without token; it resolved
\* with the administrative user and its redirect has fired.
C11_Witness ==
    /\ last.op = "redirect"
    /\ tokenAtMount = NoToken
    /\ ops = 1
    /\ user = "admin_user"
    /\ storedUser = "admin_user"
    /\ token = BearerToken
    /\ hook.state = "Running"
    /\ lastNav = AdminLanding
    /\ \A t \in {AdminLanding, GeneralLanding} : redirects[t] = 0

\* A step in which a logout sequence ran its local cleanup to the end.
LogoutCompletes ==
    \/ last'.op = "logoutDone"
    \/ (last'.began = 1 /\ last'.ret # "pending")

\* User null, Token Store empty, countdown idle.
LoggedOut == user = NoUser /\ token = NoToken /\ storedUser = NoUser /\ hook = HookIdle

\* C12: whatever the state in which a logout sequence completes (before or
\* during mount reconciliation, anonymous, authenticated, warning shown,
\* another logout pending), it leaves user null, the Token Store empty and
\* the countdown idle; completing in a state that is already so, after an
\* earlier or overlapping logout, changes nothing of it.
C12_LogoutIdempotent ==
    [][ LogoutCompletes
        => /\ LoggedOut'
           /\ tokenInfo' = NoInfo
           /\ lastNav' = LoginPage
           /\ LoggedOut => UNCHANGED <<user, token, storedUser, rememberMe, tokenInfo, hook>> ]_vars

\* A second logout, called after an earlier one had removed the token that
\* was stored at mount, has completed at once.
C12_Witness ==
    /\ last.op = "logout"
    /\ last.ret = "true"
    /\ tokenAtMount # NoToken
    /\ ~loginEver
    /\ ops = 2
    /\ LoggedOut

\* C13: a checkAuth or refreshUser step taken with a token, no cached user
\* and no usable identity id or no API endpoint (an id that does not parse
\* throws into the same catch as a missing one is handled), and a fetch-user
\* response that is not OK, failed on the network or carries no user, each
\* end that refreshUser call normally, with user null whatever it was before,
\* starting no logout and leaving the Token Store as it is.
C13_RefreshFailsClosed ==
    [][ /\ (last'.op \in {"checkAuth", "refreshUser"}
              /\ token # NoToken /\ storedUser = NoUser /\ (~userId \/ ~apiUrl))
            => /\ user' = NoUser
               /\ hook' = HookIdle
               /\ refreshPc'[last'.who] = "idle"
               /\ last'.ret = "unresolved"
               /\ ~last'.fetched
        /\ (last'.op = "fetchResponse"
              /\ last'.outcome \in {"no_user", "not_ok", "network_error"})
            => /\ user' = NoUser
               /\ hook' = HookIdle
               /\ refreshPc'[last'.who] = "idle"
               /\ last'.ret = "done"
               /\ last'.began = 0 ]_vars

\* The session had been authenticated by a fetch (no login, token never
\* removed); a consumer's refreshUser then got a non-OK response and ended
\* with user null.
C13_Witness ==
    /\ last.op = "fetchResponse"
    /\ last.who = "consumer"
    /\ last.outcome = "not_ok"
    /\ armedEver
    /\ ~loginEver
    /\ user = NoUser
    /\ token # NoToken
    /\ refreshPc["consumer"] = "idle"

\* A logout() has been called and has not finished its local cleanup.
LogoutInFlight == \E c \in LogoutCallers : logoutN[c] > 0

\* Session.status of the specification (section 3), read off the program:
\* LoggingOut from the call of a logout sequence to the end of its cleanup;
\* otherwise, without a user, Initializing until the mount reconciliation
\* is over and Anonymous after it; with a user, WarningActive while the
\* warning is shown and Authenticated when not.
Status ==
    IF LogoutInFlight THEN "LoggingOut"
    ELSE IF user = NoUser
         THEN (IF checkPc # "done" THEN "Initializing" ELSE "Anonymous")
    ELSE IF hook.showWarning THEN "WarningActive"
    ELSE "Authenticated"

\* C14: user is non-null exactly when the status is Authenticated or
\* WarningActive; without a user no warning is shown and no countdown runs.
C14_UserIffAuthenticatedStatus ==
    /\ (user # NoUser) <=> (Status \in {"Authenticated", "WarningActive"})
    /\ user = NoUser => (~hook.showWarning /\ hook.state = "Idle")
    /\ hook.showWarning => user # NoUser

\* The part of C14 that does not mention the status: without a user no
\* warning is shown and no countdown is armed; a shown warning has a user.
C14_NoWarningWithoutUser ==
    /\ user = NoUser => (~hook.showWarning /\ hook = HookIdle)
    /\ hook.showWarning => user # NoUser
    /\ hook.state # "Idle" => user # NoUser

\* C15: in no state is loading true while a countdown is armed; a countdown
\* armed by the mount reconciliation is armed when loading is already false.
C15_NoCountdownWhileLoading ==
    ~(loading /\ hook.state # "Idle")

\* The part of C15 about the mount's own steps: a step of the mount
\* reconciliation that sets a user (and so arms the countdown) is the step
\* that ends it with loading false.
C15_MountArmsWhenSettled ==
    [][ ((last'.op = "checkAuth" \/ last'.who = "mount") /\ user' # NoUser /\ user' # user)
        => (~loading' /\ checkPc' = "done") ]_vars


\* The step in which the mount reconciliation ends on a failed identity:
\* no identity can be resolved, the response holds no user, or the fetch was
\* answered 401 and the logout sequence it started has ended.
MountSettlesUnidentified ==
    \/ last'.op = "checkAuth" /\ last'.ret = "unresolved"
    \/ /\ last'.op = "fetchResponse" /\ last'.who = "mount"
       /\ \/ last'.outcome = "no_user"
          \/ last'.outcome = "unauthorized" /\ last'.ret = "done"
    \* the logout sequence started by the mount's 401 response has ended
    \/ last'.op = "logoutDone" /\ last'.who = "mount"

\* C16: at mount, with a token stored, a 401 on the identity fetch or an
\* identity that cannot be resolved settles the session Anonymous with the
\* persisted token and cached user cleared.
C16_MountFailureClearsStore ==
    [][ MountSettlesUnidentified
        => /\ user' = NoUser /\ checkPc' = "done" /\ ~loading'
           /\ token' = NoToken /\ storedUser' = NoUser ]_vars

\* The part of C16 the 401 response alone is about.
C16_Mount401ClearsStore ==
    [][ (last'.op = "logoutDone" /\ last'.who = "mount")
        => /\ user' = NoUser /\ checkPc' = "done" /\ ~loading'
           /\ token' = NoToken /\ storedUser' = NoUser ]_vars

\* C17: from the moment logout is called the Token Store is cleared and the
\* countdown cancelled, and no warn or expire event fires while the notify
\* call is pending.
C17_LogoutCleansUpAtOnce ==
    [][ /\ last'.began = 1
           => (token' = NoToken /\ storedUser' = NoUser /\ hook'.state = "Idle")
        /\ LogoutInFlight => last'.op \notin {"warn", "expire"} ]_vars


\* C18: the Persisted Token Record (token, remember-me flag, cached user) is
\* changed only by a login that resolves and by the cleanup of a logout; the
\* mount reconciliation, refreshUser on every path that does not run the
\* logout sequence, a rejected login, the countdown's tick and warn events,
\* dismiss and the redirect leave it as it was.
C18_StoreChangedOnlyByLoginLogout ==
    [][ /\ (token' # token \/ rememberMe' # rememberMe \/ storedUser' # storedUser)
           => (last'.op = "loginResolved" \/ LogoutCompletes)
        /\ ( \/ last'.op \in {"mount", "checkAuth", "refreshUser", "loginCall",
                              "loginRejected", "redirect", "tick", "warn",
                              "dismiss", "activity"}
             \/ last'.op = "fetchResponse" /\ last'.outcome # "unauthorized" )
           => UNCHANGED <<token, rememberMe, storedUser>> ]_vars

\* a fetch-user response has brought a user that mount adopted, and the store
\* still holds the token and no cached user.
C18_Witness ==
    /\ last.op = "fetchResponse" /\ last.who = "mount" /\ last.outcome = "ok"
    /\ user # NoUser
    /\ token = BearerToken /\ storedUser = NoUser
    /\ ~loginEver /\ armedEver


\* C19: loading is true only while the mount reconciliation has not
\* completed; once it has completed loading is false, whether or not a login
\* or refreshUser call of a consumer is in flight.
C19_LoadingOnlyWhileInitializing ==
    /\ loading => checkPc # "done"
    /\ checkPc = "done" => ~loading

\* the mount reconciliation has completed after a fetch, loading is false,
\* and a login and a refreshUser call of a consumer are both in flight.
C19_Witness ==
    /\ checkPc = "done" /\ ~loading /\ fetchEver
    /\ loginPc.state = "verifying"
    /\ refreshPc["consumer"] = "fetching"


\* C20: when every network call started by the mount reconciliation returns
\* or fails, the reconciliation ends on every outcome: from some point on
\* it is complete and loading is false, and stays so.
C20_MountReconciliationTerminates ==
    <>[](checkPc = "done" /\ ~loading)

\* the longest way through the reconciliation has ended: the fetch was
\* answered 401 and the notify fetch of the logout it started threw.
C20_Witness ==
    /\ last.op = "logoutDone" /\ last.who = "mount" /\ last.outcome = "thrown"
    /\ checkPc = "done" /\ ~loading
    /\ user = NoUser /\ token = NoToken


\* C21: in every reachable state a non-null user implies that the Token
\* Store holds a token; a fetch-user response arriving after a logout has
\* completed does not set a user again.
C21_UserImpliesToken ==
    user # NoUser => token # NoToken

\* C22: a fetch-user call started before a login resolved, and ending
\* afterwards in a failure or without a user, leaves the logged-in user in
\* place: no step of such a response takes the user away while the store
\* holds the token and cached user the login persisted.
C22_LoginNotOverturnedByRefresh ==
    [][ ( /\ last'.op = "fetchResponse"
          /\ last'.outcome \in {"no_user", "not_ok", "network_error"}
          /\ user # NoUser /\ token = BearerToken /\ storedUser = user )
        => user' = user ]_vars

\* C23: the delayed navigation of a login never runs against a session that
\* a logout has since made Anonymous: no redirect step is taken with no user
\* and no token, so the navigation to the login page stays the last one.
C23_NoRedirectWhenAnonymous ==
    [][ last'.op = "redirect" => ~(user = NoUser /\ token = NoToken) ]_vars

====
